---- MODULE Spec2Model ----
(***************************************************************************)
(* Model of the note editor's completion providers and paste handler       *)
(* (src/src/components/note-editor.tsx).                                   *)
(*                                                                         *)
(* Text is a sequence of one-character strings; offsets are 0-based as in  *)
(* the editor, so the character at offset k is doc[k+1].  An optional      *)
(* value is a sequence of length 0 (absent) or 1 (present).                *)
(*                                                                         *)
(* A handler is modelled as the sequence of calls it makes on its          *)
(* collaborators (view.dispatch, event.preventDefault, onPaste,            *)
(* upsertNote); RunEffects plays that sequence against the editor state    *)
(* and records what each listener observes.                                *)
(***************************************************************************)
EXTENDS Integers, Sequences, FiniteSets

VARIABLES
    doc,        \* view.state.doc
    sel,        \* view.state.selection.main: [anchor, head]
    store,      \* the note store: sequence of notes, in insertion order
    now,        \* the value Date.now() returns
    active,     \* results of the three completion sources for the current context
    hist        \* record of the handlers run so far (history variable)

vars == <<doc, sel, store, now, active, hist>>

----------------------------------------------------------------------------
(* Bounds of the model *)

MaxLeft == 3        \* initial text before the cursor
MaxRight == 2       \* initial text after the cursor
MaxOps == 2         \* handlers (apply, paste) run in one behaviour
MaxTicks == 1       \* milliseconds the clock may advance
ClockBase == 9      \* Date.now() at start

----------------------------------------------------------------------------
(* Text helpers *)

Min(a, b) == IF a <= b THEN a ELSE b
Max(a, b) == IF a >= b THEN a ELSE b

RECURSIVE SeqsUpTo(_, _)
SeqsUpTo(S, n) ==
    IF n = 0 THEN {<<>>}
    ELSE LET shorter == SeqsUpTo(S, n - 1)
         IN  shorter \cup {Append(s, c) : s \in shorter, c \in S}

StartsWith(s, p) == Len(s) >= Len(p) /\ SubSeq(s, 1, Len(p)) = p

Digits == {"0", "1", "2", "3", "4", "5", "6", "7", "8", "9"}
LowerCase == {"a", "b", "c", "d", "e", "f", "g", "h", "i", "j", "k", "l", "m",
              "n", "o", "p", "q", "r", "s", "t", "u", "v", "w", "x", "y", "z"}
UpperCase == {"A", "B", "C", "D", "E", "F", "G", "H", "I", "J", "K", "L", "M",
              "N", "O", "P", "Q", "R", "S", "T", "U", "V", "W", "X", "Y", "Z"}

\* the regular expression class \w
IsWordChar(c) == c \in LowerCase \cup UpperCase \cup Digits \cup {"_"}

DigitChar(d) == <<"0", "1", "2", "3", "4", "5", "6", "7", "8", "9">>[d + 1]
DigitValue(c) == CHOOSE d \in 0..9 : DigitChar(d) = c

\* String(n) / n.toString() of a non-negative integer
RECURSIVE ToString(_)
ToString(n) ==
    IF n < 10 THEN <<DigitChar(n)>>
    ELSE Append(ToString(n \div 10), DigitChar(n % 10))

\* s.padStart(n, "0")
RECURSIVE PadStart(_, _)
PadStart(s, n) == IF Len(s) >= n THEN s ELSE PadStart(<<"0">> \o s, n)

\* view.state.sliceDoc(from, to) / doc.sliceString(from, to): clamped to the document
SliceDoc(d, from, to) == SubSeq(d, Min(from, Len(d)) + 1, Min(to, Len(d)))

----------------------------------------------------------------------------
(* The editor widget: transactions and listeners *)

NoChanges == <<>>
NoSelection == <<>>
NoNote == <<>>

Effect(type, changes, selection, note) ==
    [type |-> type, changes |-> changes, selection |-> selection, note |-> note]

\* view.dispatch({changes: {from, to, insert}, selection: {anchor}})
DispatchEffect(from, to, insert, anchor) ==
    Effect("dispatch", <<[from |-> from, to |-> to, insert |-> insert]>>, <<anchor>>, NoNote)

Observed(ev, d, s, note) == [ev |-> ev, doc |-> d, sel |-> s, note |-> note]

\* position mapping of a selection end through a change that carries no selection
MapPos(p, c) ==
    IF p <= c.from THEN p
    ELSE IF p >= c.to THEN p + Len(c.insert) - (c.to - c.from)
    ELSE c.from + Len(c.insert)

\* the document after a transaction's changes
ChangedDoc(d, changes) ==
    IF changes = NoChanges THEN d
    ELSE LET c == changes[1]
         IN  SubSeq(d, 1, c.from) \o c.insert \o SubSeq(d, c.to + 1, Len(d))

\* the selection after a transaction
ChangedSel(s, changes, selection) ==
    IF selection # NoSelection
        THEN [anchor |-> selection[1], head |-> selection[1]]
    ELSE IF changes = NoChanges THEN s
    ELSE [anchor |-> MapPos(s.anchor, changes[1]), head |-> MapPos(s.head, changes[1])]

\* a transaction the widget accepts (anything else makes view.dispatch throw)
ValidTransaction(d, e) ==
    /\ e.changes # NoChanges =>
          /\ 0 <= e.changes[1].from
          /\ e.changes[1].from <= e.changes[1].to
          /\ e.changes[1].to <= Len(d)
    /\ e.selection # NoSelection =>
          /\ 0 <= e.selection[1]
          /\ e.selection[1] <= Len(ChangedDoc(d, e.changes))

\* upsert(note) of the note store: replaces the note with the same id, else adds it
Upsert(st, note) ==
    LET stored == [id |-> note.id, rawBody |-> note.rawBody,
                   title |-> IF "title" \in DOMAIN note THEN note.title ELSE <<>>]
    IN  IF \E i \in 1..Len(st) : st[i].id = note.id
            THEN [i \in 1..Len(st) |-> IF st[i].id = note.id THEN stored ELSE st[i]]
            ELSE Append(st, stored)

\* One call of a handler, applied to the running state
\*   st = [doc, sel, store, prevented, threw, log]
\* A dispatch applies changes and selection in one step and then notifies the
\* update listener (onStateChange) once with the new state.
RunEffect(st, e) ==
    IF st.threw THEN st
    ELSE IF e.type = "dispatch" THEN
        IF ~ValidTransaction(st.doc, e)
            THEN [st EXCEPT !.threw = TRUE]
            ELSE LET d == ChangedDoc(st.doc, e.changes)
                     s == ChangedSel(st.sel, e.changes, e.selection)
                 IN  [st EXCEPT !.doc = d, !.sel = s,
                                !.log = Append(@, Observed("update", d, s, NoNote))]
    ELSE IF e.type = "preventDefault" THEN
        [st EXCEPT !.prevented = TRUE]
    ELSE IF e.type = "onPaste" THEN
        [st EXCEPT !.log = Append(@, Observed("onPaste", st.doc, st.sel, NoNote))]
    ELSE IF e.type = "upsert" THEN
        [st EXCEPT !.store = Upsert(@, e.note[1]),
                   !.log = Append(@, Observed("upsert", st.doc, st.sel, e.note))]
    ELSE st

RECURSIVE RunEffects(_, _)
RunEffects(st, effects) ==
    IF effects = <<>> THEN st
    ELSE RunEffects(RunEffect(st, Head(effects)), Tail(effects))

----------------------------------------------------------------------------
(* Paste handler *)

HTTP == <<"h", "t", "t", "p", ":", "/", "/">>
HTTPS == <<"h", "t", "t", "p", "s", ":", "/", "/">>

\* mutant: the pattern without its "^" anchor
IsUrlUnanchored(clipboardText) ==
    \E i \in 1..Len(clipboardText) :
        LET rest == SubSeq(clipboardText, i, Len(clipboardText))
        IN  StartsWith(rest, HTTP) \/ StartsWith(rest, HTTPS)

\* /^https?:\/\//.test(clipboardText)
IsUrl(clipboardText) == StartsWith(clipboardText, HTTP) \/ StartsWith(clipboardText, HTTPS)

\* event.clipboardData?.getData("text/plain") ?? ""
ClipboardText(clipboardData) == IF clipboardData = <<>> THEN <<>> ELSE clipboardData[1]

\* mutant: wraps the URL also when nothing is selected
MarkdownAlwaysWrap(selectedText, clipboardText) ==
    <<"[">> \o selectedText \o <<"]", "(">> \o clipboardText \o <<")">>

\* `[${selectedText}](${clipboardText})` or the bare clipboard text
Markdown(selectedText, clipboardText) ==
    IF selectedText # <<>>
        THEN <<"[">> \o selectedText \o <<"]", "(">> \o clipboardText \o <<")">>
        ELSE clipboardText

\* mutant: calls the observer before it dispatches
PasteEffectsObserverFirst(clipboardData, d, s, hasOnPaste) ==
    LET clipboardText == ClipboardText(clipboardData)
        from == Min(s.anchor, s.head)
        to == Max(s.anchor, s.head)
        markdown == Markdown(SliceDoc(d, from, to), clipboardText)
    IN  (IF hasOnPaste
            THEN <<Effect("onPaste", NoChanges, NoSelection, NoNote)>>
            ELSE <<>>)
        \o (IF IsUrl(clipboardText)
               THEN <<DispatchEffect(from, to, markdown, from + Len(markdown)),
                      Effect("preventDefault", NoChanges, NoSelection, NoNote)>>
               ELSE <<>>)

\* the calls the paste handler makes, in order
PasteEffects(clipboardData, d, s, hasOnPaste) ==
    LET clipboardText == ClipboardText(clipboardData)
        from == Min(s.anchor, s.head)
        to == Max(s.anchor, s.head)
        selectedText == SliceDoc(d, from, to)
        markdown == Markdown(selectedText, clipboardText)
    IN  (IF IsUrl(clipboardText)
            THEN <<DispatchEffect(from, to, markdown, from + Len(markdown)),
                   Effect("preventDefault", NoChanges, NoSelection, NoNote)>>
            ELSE <<>>)
        \o (IF hasOnPaste
               THEN <<Effect("onPaste", NoChanges, NoSelection, NoNote)>>
               ELSE <<>>)

----------------------------------------------------------------------------
(* Trigger patterns *)

\* /\[\[[^\]|^|]*/ matched against a whole string
NotePattern(s) ==
    /\ Len(s) >= 2
    /\ s[1] = "[" /\ s[2] = "["
    /\ \A i \in 3..Len(s) : s[i] \notin {"]", "|", "^"}

\* /(\[\[[^\]|^|]*|\w*)/ matched against a whole string
DatePattern(s) == NotePattern(s) \/ \A i \in 1..Len(s) : IsWordChar(s[i])

\* /#[\w\-_\d/]*/ matched against a whole string
TagPattern(s) ==
    /\ Len(s) >= 1
    /\ s[1] = "#"
    /\ \A i \in 2..Len(s) : IsWordChar(s[i]) \/ s[i] \in {"-", "_", "/"}

\* the three expressions the sources pass to matchBefore, by name
Matches(expr, s) ==
    IF expr = "note" THEN NotePattern(s)
    ELSE IF expr = "date" THEN DatePattern(s)
    ELSE TagPattern(s)

\* offset at which the line holding pos starts
LineFrom(d, pos) ==
    LET breaks == {i \in 1..pos : d[i] = "\n"}
    IN  IF breaks = {} THEN 0 ELSE CHOOSE i \in breaks : \A j \in breaks : j <= i

\* context.matchBefore(expr): the leftmost match of expr that ends at pos, within
\* the line; absent when there is none
MatchBefore(d, pos, expr) ==
    LET found == {i \in LineFrom(d, pos)..pos : Matches(expr, SubSeq(d, i + 1, pos))}
    IN  IF found = {} THEN <<>>
        ELSE LET f == CHOOSE i \in found : \A j \in found : i <= j
             IN  <<[from |-> f, to |-> pos, text |-> SubSeq(d, f + 1, pos)]>>

----------------------------------------------------------------------------
(* Shared by the three apply functions *)

\* mutant: looks at one character after the match only
HasClosingBracketsOneChar(d, to) == SliceDoc(d, to, to + 1) = <<"]">>

\* view.state.sliceDoc(to, to + 2) === "]]"
HasClosingBrackets(d, to) == SliceDoc(d, to, to + 2) = <<"]", "]">>

\* mutant: never extends the replaced range over a closing "]]"
InsertReferenceNoConsume(d, from, to, text) == DispatchEffect(from, to, text, from + Len(text))

\* mutant: always extends the replaced range by two characters
InsertReferenceAlwaysConsume(d, from, to, text) ==
    DispatchEffect(from, to + 2, text, from + Len(text))

\* view.dispatch({changes: {from, to: hasClosingBrackets ? to + 2 : to, insert: text},
\*                selection: {anchor: from + text.length}})
InsertReference(d, from, to, text) ==
    DispatchEffect(from, IF HasClosingBrackets(d, to) THEN to + 2 ELSE to, text,
                   from + Len(text))

Option(kind, label, dateString, id, title, query) ==
    [kind |-> kind, label |-> label, dateString |-> dateString, id |-> id,
     title |-> title, query |-> query]

Result(from, options, filter) == [from |-> from, options |-> options, filter |-> filter]

----------------------------------------------------------------------------
(* Date completion *)

Date(year, month, date) == [year |-> year, month |-> month, date |-> date]

IsDigits(s) == \A i \in 1..Len(s) : s[i] \in Digits

RECURSIVE ParseInt(_)
ParseInt(s) == IF s = <<>> THEN 0 ELSE 10 * ParseInt(SubSeq(s, 1, Len(s) - 1)) + DigitValue(s[Len(s)])

\* parseDate(query) of chrono-node: a calendar date, or absent.  The word "t"
\* stands for a casual date expression ("tomorrow"), the word "y" for an
\* expression that names a day of an early year; an ISO date parses to itself.
ParseDate(query) ==
    IF query = <<"t">> THEN <<Date(2024, 0, 5)>>
    ELSE IF query = <<"y">> THEN <<Date(987, 11, 30)>>
    ELSE IF /\ Len(query) = 10
            /\ query[5] = "-" /\ query[8] = "-"
            /\ IsDigits(SubSeq(query, 1, 4))
            /\ IsDigits(SubSeq(query, 6, 7))
            /\ IsDigits(SubSeq(query, 9, 10))
            /\ ParseInt(SubSeq(query, 6, 7)) \in 1..12
            /\ ParseInt(SubSeq(query, 9, 10)) \in 1..31
        THEN <<Date(ParseInt(SubSeq(query, 1, 4)), ParseInt(SubSeq(query, 6, 7)) - 1,
                    ParseInt(SubSeq(query, 9, 10)))>>
    ELSE <<>>

\* mutant: writes the month as getMonth() returns it, counted from zero
DateStringZeroBasedMonth(date) ==
    PadStart(ToString(date.year), 4) \o <<"-">> \o PadStart(ToString(date.month), 2)
        \o <<"-">> \o PadStart(ToString(date.date), 2)

\* `${year}-${month}-${day}`
DateString(date) ==
    PadStart(ToString(date.year), 4) \o <<"-">> \o PadStart(ToString(date.month + 1), 2)
        \o <<"-">> \o PadStart(ToString(date.date), 2)

\* formatDate(dateString): a displayable absolute date
FormatDate(dateString) == <<"date ">> \o dateString

\* word.text.replace(/^\[\[/, "")
StripOpenBrackets(text) ==
    IF StartsWith(text, <<"[", "[">>) THEN SubSeq(text, 3, Len(text)) ELSE text

\* mutant: leaves the widget's own filtering of the option on
dateCompletionDefaultFilter(d, pos) ==
    LET word == MatchBefore(d, pos, "date")
    IN  IF word = <<>> THEN <<>>
        ELSE LET query == StripOpenBrackets(word[1].text)
                 date == ParseDate(query)
             IN  IF query = <<>> \/ date = <<>> THEN <<>>
                 ELSE <<Result(word[1].from,
                               <<Option("date", FormatDate(DateString(date[1])),
                                        DateString(date[1]), <<>>, <<>>, <<>>)>>,
                               TRUE)>>

dateCompletion(d, pos) ==
    LET word == MatchBefore(d, pos, "date")
    IN  IF word = <<>> THEN <<>>
        ELSE LET query == StripOpenBrackets(word[1].text)
             IN  IF query = <<>> THEN <<>>
                 ELSE LET date == ParseDate(query)
                      IN  IF date = <<>> THEN <<>>
                          ELSE LET dateString == DateString(date[1])
                               IN  <<Result(word[1].from,
                                            <<Option("date", FormatDate(dateString),
                                                     dateString, <<>>, <<>>, <<>>)>>,
                                            FALSE)>>

\* mutant: replaces the text and moves the cursor in two transactions
dateApplyTwoSteps(option, d, from, to) ==
    LET text == <<"[", "[">> \o option.dateString \o <<"]", "]">>
        end == IF HasClosingBrackets(d, to) THEN to + 2 ELSE to
    IN  <<Effect("dispatch", <<[from |-> from, to |-> end, insert |-> text]>>,
                 NoSelection, NoNote),
          Effect("dispatch", NoChanges, <<from + Len(text)>>, NoNote)>>

\* apply of the date option
dateApply(option, d, from, to) ==
    <<InsertReference(d, from, to, <<"[", "[">> \o option.dateString \o <<"]", "]">>)>>

----------------------------------------------------------------------------
(* Tag completion *)

IsTagChar(c) == IsWordChar(c) \/ c \in {"-", "_", "/"}

\* the tags of one note body: every maximal run of tag characters after a "#"
TagsOfBody(body) ==
    {SubSeq(body, i + 1, j) : <<i, j>> \in
        {p \in (1..Len(body)) \X (1..Len(body)) :
            /\ p[1] < p[2]
            /\ body[p[1]] = "#"
            /\ \A k \in (p[1] + 1)..p[2] : IsTagChar(body[k])
            /\ (p[2] = Len(body) \/ ~IsTagChar(body[p[2] + 1]))}}

\* get(tagsAtom): the tag index, the tags in use in the store's notes
getTags(st) == UNION {TagsOfBody(st[i].rawBody) : i \in 1..Len(st)}

\* Object.keys(...): the members of a set in a fixed order
RECURSIVE Keys(_)
Keys(S) == IF S = {} THEN <<>> ELSE LET x == CHOOSE y \in S : TRUE IN <<x>> \o Keys(S \ {x})

\* mutant: keeps only the tags that start with the partial token
tagCompletionFiltered(d, pos, st) ==
    LET word == MatchBefore(d, pos, "tag")
    IN  IF word = <<>> THEN <<>>
        ELSE LET token == SubSeq(word[1].text, 2, Len(word[1].text))
                 tags == Keys({t \in getTags(st) : StartsWith(t, token)})
             IN  <<Result(word[1].from + 1,
                          [i \in 1..Len(tags) |->
                              Option("tag", tags[i], <<>>, <<>>, <<>>, <<>>)],
                          TRUE)>>

\* mutant: anchors the result two characters after the start of the match
tagCompletionPastHash(d, pos, st) ==
    LET word == MatchBefore(d, pos, "tag")
    IN  IF word = <<>> THEN <<>>
        ELSE LET tags == Keys(getTags(st))
             IN  <<Result(word[1].from + 2,
                          [i \in 1..Len(tags) |->
                              Option("tag", tags[i], <<>>, <<>>, <<>>, <<>>)],
                          TRUE)>>

tagCompletion(d, pos, st) ==
    LET word == MatchBefore(d, pos, "tag")
    IN  IF word = <<>> THEN <<>>
        ELSE LET tags == Keys(getTags(st))
             IN  <<Result(word[1].from + 1,
                          [i \in 1..Len(tags) |->
                              Option("tag", tags[i], <<>>, <<>>, <<>>, <<>>)],
                          TRUE)>>

----------------------------------------------------------------------------
(* Note completion *)

TopResults == 5

\* a frontmatter block at the start of a note body, as one unit of text
Frontmatter == "---\nk: v\n---\n"

\* parseFrontmatter(rawBody).content
ParseFrontmatter(rawBody) ==
    IF rawBody # <<>> /\ rawBody[1] = Frontmatter THEN Tail(rawBody) ELSE rawBody

\* searchNotes(query): the results the store may return, in its ranking order
SearchNotes(st, query) == {SubSeq(st, 1, n) : n \in 0..Len(st)}

createNewNoteLabel(query) == <<"Create new note \"">> \o query \o <<"\"">>

\* mutant: offers the create option also for an empty query
noteCompletionAlwaysCreate(d, pos, searchResults) ==
    LET word == MatchBefore(d, pos, "note")
    IN  IF word = <<>> THEN <<>>
        ELSE LET query == SubSeq(word[1].text, 3, Len(word[1].text))
                 top == SubSeq(searchResults, 1, Min(TopResults, Len(searchResults)))
                 options == [i \in 1..Len(top) |->
                                Option("note", ParseFrontmatter(top[i].rawBody), <<>>,
                                       top[i].id, top[i].title, <<>>)]
             IN  <<Result(word[1].from,
                          Append(options, Option("create", createNewNoteLabel(query),
                                                 <<>>, <<>>, <<>>, query)),
                          FALSE)>>

\* mutant: labels a note with its whole body, frontmatter included
noteCompletionRawLabel(d, pos, searchResults) ==
    LET word == MatchBefore(d, pos, "note")
    IN  IF word = <<>> THEN <<>>
        ELSE LET query == SubSeq(word[1].text, 3, Len(word[1].text))
                 top == SubSeq(searchResults, 1, Min(TopResults, Len(searchResults)))
                 options == [i \in 1..Len(top) |->
                                Option("note", top[i].rawBody, <<>>, top[i].id,
                                       top[i].title, <<>>)]
             IN  <<Result(word[1].from,
                          IF query # <<>>
                              THEN Append(options, Option("create", createNewNoteLabel(query),
                                                          <<>>, <<>>, <<>>, query))
                              ELSE options,
                          FALSE)>>

\* mutant: lists every search result
noteCompletionAllResults(d, pos, searchResults) ==
    LET word == MatchBefore(d, pos, "note")
    IN  IF word = <<>> THEN <<>>
        ELSE LET query == SubSeq(word[1].text, 3, Len(word[1].text))
                 options == [i \in 1..Len(searchResults) |->
                                Option("note", ParseFrontmatter(searchResults[i].rawBody),
                                       <<>>, searchResults[i].id, searchResults[i].title,
                                       <<>>)]
             IN  <<Result(word[1].from,
                          IF query # <<>>
                              THEN Append(options, Option("create", createNewNoteLabel(query),
                                                          <<>>, <<>>, <<>>, query))
                              ELSE options,
                          FALSE)>>

noteCompletion(d, pos, searchResults) ==
    LET word == MatchBefore(d, pos, "note")
    IN  IF word = <<>> THEN <<>>
        ELSE LET query == SubSeq(word[1].text, 3, Len(word[1].text))
                 createNewNoteOption ==
                     Option("create", createNewNoteLabel(query), <<>>, <<>>, <<>>, query)
                 top == SubSeq(searchResults, 1, Min(TopResults, Len(searchResults)))
                 options == [i \in 1..Len(top) |->
                                Option("note", ParseFrontmatter(top[i].rawBody), <<>>,
                                       top[i].id, top[i].title, <<>>)]
             IN  <<Result(word[1].from,
                          IF query # <<>> THEN Append(options, createNewNoteOption)
                                          ELSE options,
                          FALSE)>>

\* mutant: derives the id from the time in seconds
createNewNoteApplySeconds(option, d, from, to, time) ==
    LET note == [id |-> ToString(time \div 1000),
                 rawBody |-> <<"#", " ">> \o option.query
                                 \o <<"\n", "\n", "#", "i", "n", "b", "o", "x">>]
    IN  <<Effect("upsert", NoChanges, NoSelection, <<note>>),
          InsertReference(d, from, to,
              <<"[", "[">> \o note.id \o <<"|">> \o option.query \o <<"]", "]">>)>>

\* mutant: inserts the link first and stores the note afterwards
createNewNoteApplyInsertFirst(option, d, from, to, time) ==
    LET note == [id |-> ToString(time),
                 rawBody |-> <<"#", " ">> \o option.query
                                 \o <<"\n", "\n", "#", "i", "n", "b", "o", "x">>]
    IN  <<InsertReference(d, from, to,
              <<"[", "[">> \o note.id \o <<"|">> \o option.query \o <<"]", "]">>),
          Effect("upsert", NoChanges, NoSelection, <<note>>)>>

\* apply of the create-new-note option; time is what Date.now() returns
createNewNoteApply(option, d, from, to, time) ==
    LET note == [id |-> ToString(time),
                 rawBody |-> <<"#", " ">> \o option.query
                                 \o <<"\n", "\n", "#", "i", "n", "b", "o", "x">>]
    IN  <<Effect("upsert", NoChanges, NoSelection, <<note>>),
          InsertReference(d, from, to,
              <<"[", "[">> \o note.id \o <<"|">> \o option.query \o <<"]", "]">>)>>

\* mutant: writes the separator and the title also when the note has no title
noteApplyAlwaysTitle(option, d, from, to) ==
    <<InsertReference(d, from, to,
          <<"[", "[">> \o option.id \o <<"|">> \o option.title \o <<"]", "]">>)>>

\* apply of a search-result option
noteApply(option, d, from, to) ==
    <<InsertReference(d, from, to,
          <<"[", "[">> \o option.id
              \o (IF option.title # <<>> THEN <<"|">> \o option.title ELSE <<>>)
              \o <<"]", "]">>)>>

\* the calls the apply function of an option makes, in order
ApplyEffects(option, d, from, to, time) ==
    IF option.kind = "date" THEN dateApply(option, d, from, to)
    ELSE IF option.kind = "create" THEN createNewNoteApply(option, d, from, to, time)
    ELSE noteApply(option, d, from, to)

----------------------------------------------------------------------------
(* State machine *)

LeftChars == {"[", "]", "#", "t"}
RightChars == {"]", "t"}

\* clipboard payloads: absent, empty, URLs, and near misses
Clipboards ==
    {<<>>, <<<<>>>>, <<HTTP \o <<"a">>>>, <<HTTPS \o <<"a">>>>, <<<<"a">> \o HTTP>>}

InitialNotes ==
    <<[id |-> <<"7">>, rawBody |-> <<"#", "t">>, title |-> <<>>],
      [id |-> <<"8">>, rawBody |-> <<Frontmatter, "x", " ", "#", "t", "/", "a">>,
       title |-> <<"x">>]>>

Collapsed(s) == s.anchor = s.head

\* a fresh editor on any short document, the cursor anywhere in it, with nothing,
\* everything before the cursor or everything after it selected; the store is
\* empty or holds two notes
Init ==
    /\ \E left \in SeqsUpTo(LeftChars, MaxLeft), right \in SeqsUpTo(RightChars, MaxRight) :
          /\ doc = left \o right
          /\ \E a \in {0, Len(left), Len(left \o right)} :
                sel = [anchor |-> a, head |-> Len(left)]
    /\ store \in {<<>>, InitialNotes}
    /\ now = ClockBase
    /\ active = <<>>
    /\ hist = <<>>

\* the record of one handler run: its inputs, the calls it made, what the
\* listeners observed and the state it left
Handled(kind, option, clipboardData, hasOnPaste, from, to, effects) ==
    LET st == RunEffects([doc |-> doc, sel |-> sel, store |-> store,
                          prevented |-> FALSE, threw |-> FALSE, log |-> <<>>], effects)
    IN  [kind |-> kind, option |-> option, clipboardData |-> clipboardData,
         hasOnPaste |-> hasOnPaste, from |-> from, to |-> to, time |-> now,
         docBefore |-> doc, selBefore |-> sel, storeBefore |-> store,
         effects |-> effects, log |-> st.log, prevented |-> st.prevented,
         threw |-> st.threw, docAfter |-> st.doc, selAfter |-> st.sel,
         storeAfter |-> st.store,
         defaultPending |-> (kind = "paste" /\ ~st.prevented)]

Commit(entry) ==
    /\ doc' = entry.docAfter
    /\ sel' = entry.selAfter
    /\ store' = entry.storeAfter
    /\ hist' = Append(hist, entry)
    /\ active' = IF doc' = doc /\ sel' = sel THEN active ELSE <<>>
    /\ UNCHANGED now

\* the default paste of the widget has not run yet
DefaultPending == hist # <<>> /\ hist[Len(hist)].defaultPending

\* a keystroke or cursor move makes the widget query the three sources
Trigger ==
    /\ Collapsed(sel)
    /\ active = <<>>
    /\ ~DefaultPending
    /\ LET pos == sel.head
           word == MatchBefore(doc, pos, "note")
           query == IF word = <<>> THEN <<>> ELSE SubSeq(word[1].text, 3, Len(word[1].text))
       IN  \E searchResults \in SearchNotes(store, query) :
               active' = <<[pos |-> pos,
                            search |-> IF word = <<>> THEN <<>> ELSE searchResults,
                            date |-> dateCompletion(doc, pos),
                            note |-> noteCompletion(doc, pos, searchResults),
                            tag |-> tagCompletion(doc, pos, store)]>>
    /\ UNCHANGED <<doc, sel, store, now, hist>>

\* the user selects an option that has an apply function
Apply ==
    /\ active # <<>>
    /\ \E source \in {"date", "note"} :
          /\ active[1][source] # <<>>
          /\ LET result == active[1][source][1]
             IN  \E i \in 1..Len(result.options) :
                     Commit(Handled("apply", <<result.options[i]>>, <<>>, FALSE,
                                    result.from, active[1].pos,
                                    ApplyEffects(result.options[i], doc, result.from,
                                                 active[1].pos, now)))

\* a paste event reaches the paste handler; hasOnPaste tells whether the caller
\* gave the editor an onPaste observer
Paste ==
    /\ ~DefaultPending
    /\ \E clipboardData \in Clipboards, hasOnPaste \in BOOLEAN :
          Commit(Handled("paste", <<>>, clipboardData, hasOnPaste,
                         Min(sel.anchor, sel.head), Max(sel.anchor, sel.head),
                         PasteEffects(clipboardData, doc, sel, hasOnPaste)))

\* the widget's own paste, run when the handler did not prevent it
DefaultPaste ==
    /\ DefaultPending
    /\ LET text == ClipboardText(hist[Len(hist)].clipboardData)
           from == Min(sel.anchor, sel.head)
           to == Max(sel.anchor, sel.head)
       IN  /\ doc' = SubSeq(doc, 1, from) \o text \o SubSeq(doc, to + 1, Len(doc))
           /\ sel' = [anchor |-> from + Len(text), head |-> from + Len(text)]
    /\ hist' = [hist EXCEPT ![Len(hist)].defaultPending = FALSE]
    /\ active' = <<>>
    /\ UNCHANGED <<store, now>>

\* the user moves the cursor
MoveCursor ==
    /\ \E p \in 0..Len(doc) :
          /\ p # sel.head \/ ~Collapsed(sel)
          /\ sel' = [anchor |-> p, head |-> p]
    /\ active' = <<>>
    /\ UNCHANGED <<doc, store, now, hist>>

\* time passes
Tick ==
    /\ now < ClockBase + MaxTicks
    /\ now' = now + 1
    /\ UNCHANGED <<doc, sel, store, active, hist>>

\* One handler on a fresh editor: every document, cursor and selection of Init
\* meets every completion option and every clipboard payload once.
FirstHandler == hist = <<>>

Next ==
    \/ FirstHandler /\ Trigger
    \/ FirstHandler /\ Apply
    \/ FirstHandler /\ Paste
    \/ DefaultPaste

Spec == Init /\ [][Next]_vars

\* An editing session: references are completed, revisited and completed again
\* while time passes.
SessionLefts == {<<"[", "[", "t">>, <<"[", "[">>, <<"t">>}
SessionRights == {<<>>, <<"]", "]">>}

InitSession ==
    /\ \E left \in SessionLefts, right \in SessionRights :
          /\ doc = left \o right
          /\ sel = [anchor |-> Len(left), head |-> Len(left)]
    /\ store = InitialNotes
    /\ now = ClockBase
    /\ active = <<>>
    /\ hist = <<>>

MoreOps == Len(hist) < MaxOps

NextSession ==
    \/ MoreOps /\ Trigger
    \/ MoreOps /\ Apply
    \/ MoreOps /\ MoveCursor
    \/ Tick

SpecSession == InitSession /\ [][NextSession]_vars

\* The three sources on their inputs: every short text before the cursor over
\* the characters the trigger patterns tell apart, followed by nothing or by
\* "]]", against an empty, a small and a large store.
ProviderChars == {"[", "]", "|", "^", "#", "t", "y"}
ProviderRights == {<<>>, <<"]", "]">>}

\* more notes than the note source offers; the third has no content after its
\* frontmatter, the fourth no body at all
ManyNotes ==
    <<[id |-> <<"1">>, rawBody |-> <<"a">>, title |-> <<>>],
      [id |-> <<"2">>, rawBody |-> <<Frontmatter, "b">>, title |-> <<"b">>],
      [id |-> <<"3">>, rawBody |-> <<Frontmatter>>, title |-> <<"c">>],
      [id |-> <<"4">>, rawBody |-> <<>>, title |-> <<>>],
      [id |-> <<"5">>, rawBody |-> <<"#", "y">>, title |-> <<>>],
      [id |-> <<"6">>, rawBody |-> <<"f">>, title |-> <<"f">>],
      [id |-> <<"7">>, rawBody |-> <<"g">>, title |-> <<>>]>>

InitProviders ==
    /\ \E left \in SeqsUpTo(ProviderChars, MaxLeft), right \in ProviderRights :
          /\ doc = left \o right
          /\ sel = [anchor |-> Len(left), head |-> Len(left)]
    /\ store \in {<<>>, InitialNotes, ManyNotes}
    /\ now = ClockBase
    /\ active = <<>>
    /\ hist = <<>>

NextProviders ==
    \/ FirstHandler /\ Trigger
    \/ FirstHandler /\ Apply

SpecProviders == InitProviders /\ [][NextProviders]_vars

----------------------------------------------------------------------------
(* Vocabulary of the properties *)

Entries == {hist[k] : k \in 1..Len(hist)}
Applies == {e \in Entries : e.kind = "apply"}
Pastes == {e \in Entries : e.kind = "paste"}

Dispatches(e) == SelectSeq(e.effects, LAMBDA x : x.type = "dispatch")
Updates(e) == SelectSeq(e.log, LAMBDA x : x.ev = "update")
ObserverCalls(e) == SelectSeq(e.log, LAMBDA x : x.ev = "onPaste")
Upserts(e) == SelectSeq(e.log, LAMBDA x : x.ev = "upsert")

\* the two characters of d at offsets [to, to + 2) are "]]"
ClosedAt(d, to) == to + 2 <= Len(d) /\ d[to + 1] = "]" /\ d[to + 2] = "]"

\* d with the range [from, end) replaced by text
Replaced(d, from, end, text) == SubSeq(d, 1, from) \o text \o SubSeq(d, end + 1, Len(d))

CursorAt(s, p) == s.anchor = p /\ s.head = p

\* text begins with "http://" or "https://"
BeginsAsUrl(text) ==
    \/ Len(text) >= 7 /\ \A i \in 1..7 : text[i] = HTTP[i]
    \/ Len(text) >= 8 /\ \A i \in 1..8 : text[i] = HTTPS[i]

PastedText(e) == IF e.clipboardData = <<>> THEN <<>> ELSE e.clipboardData[1]

----------------------------------------------------------------------------
(* C1 *)

\* the end of the range an apply must replace
ConsumedEnd(e) == IF ClosedAt(e.docBefore, e.to) THEN e.to + 2 ELSE e.to

\* C1: every apply of a date, existing-note or create-new-note option, called with
\* the span [from, to], replaces the range that starts at from and ends at to + 2
\* when the two characters at [to, to + 2) are "]]", and at to otherwise (also when
\* fewer than two characters follow to).
C1_BracketConsumption ==
    \A e \in Applies :
        /\ Len(Dispatches(e)) = 1
        /\ Dispatches(e)[1].changes # NoChanges
        /\ Dispatches(e)[1].changes[1].from = e.from
        /\ Dispatches(e)[1].changes[1].to = ConsumedEnd(e)
        /\ e.docAfter = Replaced(e.docBefore, e.from, ConsumedEnd(e),
                                 Dispatches(e)[1].changes[1].insert)

\* an existing-note option was applied where "]]" follows the cursor, and the
\* brackets were consumed
C1_Witness ==
    \E e \in Applies :
        /\ e.option[1].kind = "note"
        /\ ClosedAt(e.docBefore, e.to)
        /\ Dispatches(e)[1].changes[1].to = e.to + 2
        /\ e.docAfter = SubSeq(e.docBefore, 1, e.from) \o <<"[", "[", "7", "]", "]">>

----------------------------------------------------------------------------
(* C3 *)

\* C3: a paste whose clipboard text starts with "http://" or "https://" replaces
\* a non-empty selection [from, to] by "[" + selected text + "](" + url + ")", and
\* inserts the bare URL at a collapsed cursor; either way the cursor ends
\* collapsed at from + the length of the inserted text.
C3_UrlPasteWrap ==
    \A e \in Pastes :
        BeginsAsUrl(PastedText(e)) =>
            LET url == PastedText(e)
                selected == SubSeq(e.docBefore, e.from + 1, e.to)
                inserted == IF e.from < e.to
                                THEN <<"[">> \o selected \o <<"]", "(">> \o url \o <<")">>
                                ELSE url
            IN  /\ e.from = Min(e.selBefore.anchor, e.selBefore.head)
                /\ e.to = Max(e.selBefore.anchor, e.selBefore.head)
                /\ e.docAfter = Replaced(e.docBefore, e.from, e.to, inserted)
                /\ CursorAt(e.selAfter, e.from + Len(inserted))

\* a URL was pasted over a non-empty selection made backwards (anchor after head)
C3_Witness ==
    \E e \in Pastes :
        /\ BeginsAsUrl(PastedText(e))
        /\ e.selBefore.head < e.selBefore.anchor
        /\ e.docAfter # e.docBefore
        /\ e.docAfter[e.from + 1] = "["

----------------------------------------------------------------------------
(* C4 *)

\* C4: on every paste, URL or not, an onPaste observer given by the caller is
\* called exactly once, and after the transaction when the handler issues one:
\* the observer sees the document and selection the transaction left.
C4_ObserverOrdering ==
    \A e \in Pastes :
        e.hasOnPaste =>
            /\ Len(ObserverCalls(e)) = 1
            /\ e.log[Len(e.log)].ev = "onPaste"
            /\ ObserverCalls(e)[1].doc = e.docAfter
            /\ ObserverCalls(e)[1].sel = e.selAfter
            /\ BeginsAsUrl(PastedText(e)) =>
                  /\ Len(e.log) = 2
                  /\ e.log[1].ev = "update"

\* an observer was called after a transaction that changed the document
C4_Witness ==
    \E e \in Pastes :
        /\ e.hasOnPaste
        /\ Len(Updates(e)) = 1
        /\ e.docAfter # e.docBefore
        /\ ObserverCalls(e)[1].doc = e.docAfter

----------------------------------------------------------------------------
(* C5 *)

\* C5: a paste is marked handled exactly when its clipboard text starts with
\* "http://" or "https://"; otherwise (an absent payload counts as empty text) the
\* handler issues no transaction, leaves document and selection as they were,
\* and the default paste proceeds.
C5_HandledFlag ==
    \A e \in Pastes :
        /\ e.prevented <=> BeginsAsUrl(PastedText(e))
        /\ ~BeginsAsUrl(PastedText(e)) =>
              /\ Dispatches(e) = <<>>
              /\ Updates(e) = <<>>
              /\ e.docAfter = e.docBefore
              /\ e.selAfter = e.selBefore
              /\ e.storeAfter = e.storeBefore

\* a text that holds a URL but does not start with one was pasted and left to
\* the default paste
C5_Witness ==
    \E e \in Pastes :
        /\ PastedText(e) = <<"a">> \o HTTP
        /\ ~e.prevented
        /\ e.defaultPending

----------------------------------------------------------------------------
(* C7 *)

\* a handler run that must issue a transaction: an apply, or a paste of a URL
Transacting == Applies \cup {e \in Pastes : BeginsAsUrl(PastedText(e))}

\* C7: every apply of a date, existing-note or create-new-note option and every
\* URL paste issues exactly one transaction, which carries the text replacement
\* and the new cursor position together: the update listener is notified once,
\* and what it sees has both the new text and the new cursor.
C7_AtomicApply ==
    \A e \in Transacting :
        /\ ~e.threw
        /\ Len(Dispatches(e)) = 1
        /\ Dispatches(e)[1].changes # NoChanges
        /\ Dispatches(e)[1].selection # NoSelection
        /\ Len(Updates(e)) = 1
        /\ LET c == Dispatches(e)[1].changes[1]
           IN  /\ Updates(e)[1].doc = Replaced(e.docBefore, c.from, c.to, c.insert)
               /\ CursorAt(Updates(e)[1].sel, c.from + Len(c.insert))
               /\ e.docAfter = Updates(e)[1].doc
               /\ e.selAfter = Updates(e)[1].sel

\* a date option was applied with the cursor not at the place where the inserted
\* text ends, and the listener saw the new text and the moved cursor at once
C7_Witness ==
    \E e \in Applies :
        /\ e.option[1].kind = "date"
        /\ Len(Updates(e)) = 1
        /\ Updates(e)[1].doc # e.docBefore
        /\ Updates(e)[1].sel # e.selBefore

----------------------------------------------------------------------------
(* C8 *)

CreateOptions(result) == SelectSeq(result.options, LAMBDA o : o.kind = "create")

\* C8: whenever the note source matches, its options hold the synthetic option
\* labelled Create new note "<query>" exactly once, in the last place, when the
\* query (the matched text after its "[[") is not empty, and no such option when
\* the query is empty.
C8_CreateNoteGating ==
    active # <<>> /\ active[1].note # <<>> =>
        LET result == active[1].note[1]
            query == SubSeq(doc, result.from + 3, active[1].pos)
        IN  IF query = <<>>
                THEN CreateOptions(result) = <<>>
                ELSE /\ Len(CreateOptions(result)) = 1
                     /\ result.options[Len(result.options)].kind = "create"
                     /\ result.options[Len(result.options)].label
                            = <<"Create new note \"">> \o query \o <<"\"">>
                     /\ result.options[Len(result.options)].query = query

\* the note source matched with a non-empty query and two search results, so the
\* create option comes third
C8_Witness ==
    /\ active # <<>> /\ active[1].note # <<>>
    /\ Len(active[1].note[1].options) = 3
    /\ active[1].note[1].options[3].kind = "create"

----------------------------------------------------------------------------
(* C10 *)

\* the text of d before pos ends with "#" at offset h followed by tag characters only
TagTokenAt(d, h, pos) ==
    /\ h < pos
    /\ d[h + 1] = "#"
    /\ \A k \in (h + 2)..pos :
          d[k] \in LowerCase \cup UpperCase \cup Digits \cup {"-", "_", "/"}

\* C10: whenever the text before the cursor ends with "#" followed by zero or
\* more letters, digits, hyphens, underscores or "/", the tag source answers with
\* the offset just after that "#" as its anchor, and with one option per tag the
\* tag index holds at that moment, not filtered by the partial token.
C10_TagAnchor ==
    active # <<>> =>
        \A h \in 0..Len(doc) :
            TagTokenAt(doc, h, active[1].pos) =>
                /\ active[1].tag # <<>>
                /\ active[1].tag[1].from = h + 1
                /\ Len(active[1].tag[1].options) = Cardinality(getTags(store))
                /\ {o.label : o \in {active[1].tag[1].options[i] :
                                        i \in 1..Len(active[1].tag[1].options)}}
                       = getTags(store)

\* the tag source answered on a partial token that is a prefix of no known tag
C10_Witness ==
    /\ active # <<>> /\ active[1].tag # <<>>
    /\ active[1].pos - active[1].tag[1].from = 2
    /\ Len(active[1].tag[1].options) = 2

----------------------------------------------------------------------------
(* C2 *)

InsertedText(e) == Dispatches(e)[1].changes[1].insert

CountOf(d, c) == Cardinality({i \in 1..Len(d) : d[i] = c})

\* e2 applies the completion of e1 again, on the reference e1 inserted, from a
\* cursor placed before the closing "]]" of that reference
Reinvokes(e1, e2) ==
    /\ e1.kind = "apply" /\ e2.kind = "apply"
    /\ e2.option = e1.option
    /\ e2.docBefore = e1.docAfter
    /\ e2.to = e1.from + Len(InsertedText(e1)) - 2

\* C2: when "]]" follows the match, applying a completion and then applying the
\* same completion again from before the closing "]]" of the inserted reference
\* leaves the reference closed by exactly two "]", directly followed by what
\* followed the original "]]": no "]" is added, however often this is repeated.
C2_BracketIdempotence ==
    \A k \in 1..(Len(hist) - 1) :
        LET e1 == hist[k]
            e2 == hist[k + 1]
        IN  Reinvokes(e1, e2) /\ ClosedAt(e1.docBefore, e1.to) =>
                /\ e2.from = e1.from
                /\ e2.docAfter = e1.docAfter
                /\ CountOf(e2.docAfter, "]") = CountOf(e1.docBefore, "]")
                /\ e2.docAfter = SubSeq(e1.docBefore, 1, e1.from) \o InsertedText(e2)
                                     \o SubSeq(e1.docBefore, e1.to + 3, Len(e1.docBefore))
                /\ CursorAt(e2.selAfter, e1.from + Len(InsertedText(e2)))

\* a date option was applied over "[[t" followed by "]]", and applied again from
\* before the closing "]]" of the date reference
C2_Witness ==
    \E k \in 1..(Len(hist) - 1) :
        /\ Reinvokes(hist[k], hist[k + 1])
        /\ ClosedAt(hist[k].docBefore, hist[k].to)
        /\ hist[k].option[1].kind = "date"
        /\ ClosedAt(hist[k + 1].docBefore, hist[k + 1].to)

----------------------------------------------------------------------------
(* C9 *)

Creates == {k \in 1..Len(hist) : hist[k].kind = "apply" /\ hist[k].option[1].kind = "create"}

\* the note a create-new-note apply passed to upsert
CreatedNote(k) == Upserts(hist[k])[1].note[1]

\* C9: two create-new-note applies run at distinct times make notes with distinct
\* ids, so that after the second the store still holds the note of the first.
C9_DistinctIds ==
    \A i \in Creates, j \in Creates :
        i < j /\ hist[i].time # hist[j].time =>
            /\ Len(Upserts(hist[i])) = 1 /\ Len(Upserts(hist[j])) = 1
            /\ CreatedNote(i).id # CreatedNote(j).id
            /\ \E n \in 1..Len(hist[j].storeBefore) :
                  hist[j].storeBefore[n].id = CreatedNote(i).id
            /\ \A n \in 1..Len(hist[j].storeBefore) :
                  hist[j].storeBefore[n].id = CreatedNote(i).id =>
                      hist[j].storeAfter[n] = hist[j].storeBefore[n]

\* two notes were created one millisecond apart
C9_Witness ==
    \E i \in Creates, j \in Creates :
        /\ i < j
        /\ hist[j].time = hist[i].time + 1
        /\ Len(store) = Len(InitialNotes) + 2

----------------------------------------------------------------------------
(* C11 *)

\* the text an apply was called on: the document between its anchor and the cursor
TypedText(e) == SubSeq(e.docBefore, e.from + 1, e.to)

\* the typed text without a leading "[["
TypedQuery(e) ==
    IF Len(TypedText(e)) >= 2 /\ TypedText(e)[1] = "[" /\ TypedText(e)[2] = "["
        THEN SubSeq(TypedText(e), 3, Len(TypedText(e)))
        ELSE TypedText(e)

\* YYYY-MM-DD of a calendar date, digit by digit, the month counted from one
IsoDate(D) ==
    <<DigitChar((D.year \div 1000) % 10), DigitChar((D.year \div 100) % 10),
      DigitChar((D.year \div 10) % 10), DigitChar(D.year % 10), "-",
      DigitChar(((D.month + 1) \div 10) % 10), DigitChar((D.month + 1) % 10), "-",
      DigitChar((D.date \div 10) % 10), DigitChar(D.date % 10)>>

DateApplies == {e \in Applies : e.option[1].kind = "date"}

\* C11: when the date parser returns the calendar date D for the query, the date
\* option inserts exactly "[[" + YYYY-MM-DD of D + "]]", the year padded to four
\* digits, the month (counted from one) and the day to two; for the query that
\* names tomorrow this is the link of the day after today; and the cursor ends
\* collapsed right after the inserted text.
C11_DateRoundTrip ==
    \A e \in DateApplies :
        LET D == ParseDate(TypedQuery(e))
            link == <<"[", "[">> \o IsoDate(D[1]) \o <<"]", "]">>
        IN  /\ D # <<>>
            /\ Len(link) = 14
            /\ InsertedText(e) = link
            /\ e.docAfter = Replaced(e.docBefore, e.from, ConsumedEnd(e), link)
            /\ CursorAt(e.selAfter, e.from + 14)
            /\ TypedQuery(e) = <<"t">> =>
                  InsertedText(e) = <<"[", "[", "2", "0", "2", "4", "-", "0", "1", "-",
                                      "0", "5", "]", "]">>

\* the date option of a day in the year 987 was applied after "[[y", and the year
\* was written with a leading zero
C11_Witness ==
    \E e \in DateApplies :
        /\ TypedText(e) = <<"[", "[", "y">>
        /\ e.docAfter = SubSeq(e.docBefore, 1, e.from)
                            \o <<"[", "[", "0", "9", "8", "7", "-", "1", "2", "-",
                                 "3", "0", "]", "]">>
                            \o SubSeq(e.docBefore, ConsumedEnd(e) + 1, Len(e.docBefore))
        /\ CursorAt(e.selAfter, e.from + 14)

----------------------------------------------------------------------------
(* C12 *)

NoteIds(st) == {st[i].id : i \in 1..Len(st)}

\* C12: no create-new-note apply makes a note whose id is the id of a note the
\* store already holds, whether an earlier apply created it or it was there
\* before; so every such apply makes the store one note larger.
C12_GlobalIdUniqueness ==
    \A k \in Creates :
        /\ CreatedNote(k).id \notin NoteIds(hist[k].storeBefore)
        /\ Len(hist[k].storeAfter) = Len(hist[k].storeBefore) + 1

----------------------------------------------------------------------------
(* C13 *)

CreateApplies == {e \in Applies : e.option[1].kind = "create"}

\* what every handled apply and paste did to the store
C13_Handled ==
    /\ \A e \in CreateApplies :
          LET query == TypedQuery(e)
          IN  /\ Len(e.log) = 2
              /\ e.log[1].ev = "upsert"
              /\ e.log[1].doc = e.docBefore
              /\ e.log[1].note[1].rawBody
                    = <<"#", " ">> \o query \o <<"\n", "\n", "#", "i", "n", "b", "o", "x">>
              /\ e.log[2].ev = "update"
              /\ e.log[2].doc = e.docAfter
              /\ InsertedText(e)
                    = <<"[", "[">> \o e.log[1].note[1].id \o <<"|">> \o query \o <<"]", "]">>
              /\ \E i \in 1..Len(e.storeAfter) :
                    /\ e.storeAfter[i].id = e.log[1].note[1].id
                    /\ e.storeAfter[i].rawBody = e.log[1].note[1].rawBody
    /\ \A e \in Entries \ CreateApplies :
          /\ Upserts(e) = <<>>
          /\ e.storeAfter = e.storeBefore

\* C13: applying the create-new-note option calls upsert exactly once, with the
\* body "# " + query + two newlines + "#inbox", before it issues the document
\* transaction, and the link it inserts is "[[" + id + "|" + query + "]]" with the
\* id of that note; nothing else (computing results, applying a date or
\* existing-note option, pasting) calls upsert or changes the store.
C13_CreateNoteEffect ==
    /\ []C13_Handled
    /\ [][Len(hist') = Len(hist) => store' = store]_vars

\* a create-new-note apply stored its note and then inserted the link to it
C13_Witness ==
    \E e \in CreateApplies :
        /\ e.log[1].ev = "upsert"
        /\ e.log[1].note[1].id = ToString(ClockBase)
        /\ Len(e.storeAfter) = Len(e.storeBefore) + 1
        /\ e.docAfter # e.docBefore
        /\ InsertedText(e) = <<"[", "[">> \o ToString(ClockBase) \o <<"|", "t", "]", "]">>

----------------------------------------------------------------------------
(* C14 *)

\* the offsets h before pos at which a "[[" starts that is followed, up to pos,
\* only by characters outside stop
OpenLinkStarts(d, pos, stop) ==
    {h \in 0..(pos - 2) :
        /\ d[h + 1] = "[" /\ d[h + 2] = "["
        /\ \A k \in (h + 3)..pos : d[k] \notin stop}

\* the note source, for the text before the cursor, matches with its anchor at
\* such a "[[" and the run after it as the query whenever there is one, and does
\* not match when there is none
NoteTrigger(stop) ==
    active # <<>> =>
        LET pos == active[1].pos
            starts == OpenLinkStarts(doc, pos, stop)
            note == active[1].note
        IN  IF starts = {} THEN note = <<>>
            ELSE /\ note # <<>>
                 /\ note[1].from \in starts
                 /\ \A i \in 1..Len(note[1].options) :
                       note[1].options[i].kind = "create" =>
                           note[1].options[i].query = SubSeq(doc, note[1].from + 3, pos)

\* C14: for every text before the cursor that ends with "[[" followed by a run of
\* characters none of which is "]" or "|", the note source matches, its anchor is
\* the offset of the first "[" of that "[[" and its query is exactly that run; it
\* returns no match only when the text has no such suffix.
C14_NoteTrigger == NoteTrigger({"]", "|"})

----------------------------------------------------------------------------
(* C15 *)

\* the options of a note result that stand for stored notes
ListedNotes(result) == SelectSeq(result.options, LAMBDA o : o.kind = "note")

\* C15: the options of a note result that stand for stored notes correspond one
\* to one, in the store's order, to the first min(5, n) of the n search results
\* and come before the create option; the list has at most 6 entries; and the
\* result turns the widget's own filtering off.
C15_TopFive ==
    \A a \in {active[k] : k \in 1..Len(active)} :
        a.note # <<>> =>
            LET n == Len(a.search)
                shown == IF n < 5 THEN n ELSE 5
                options == a.note[1].options
            IN  /\ Len(ListedNotes(a.note[1])) = shown
                /\ \A i \in 1..shown :
                      /\ options[i].kind = "note"
                      /\ options[i].id = a.search[i].id
                      /\ options[i].title = a.search[i].title
                /\ Len(options) <= 6
                /\ Len(options) <= shown + 1
                /\ a.note[1].filter = FALSE

\* the search returned seven notes for a non-empty query: five are listed, in
\* order, and the create option is the sixth entry
C15_Witness ==
    /\ active # <<>>
    /\ active[1].note # <<>>
    /\ Len(active[1].search) = 7
    /\ Len(active[1].note[1].options) = 6
    /\ active[1].note[1].options[5].id = <<"5">>
    /\ active[1].note[1].options[6].kind = "create"

----------------------------------------------------------------------------
(* C16 *)

NoteApplies == {e \in Applies : e.option[1].kind = "note"}

\* the link to a stored note
LinkTo(note) ==
    IF note.title = <<>>
        THEN <<"[", "[">> \o note.id \o <<"]", "]">>
        ELSE <<"[", "[">> \o note.id \o <<"|">> \o note.title \o <<"]", "]">>

\* C16: applying the option of an existing note inserts "[[" + id + "]]" when the
\* note has no explicit title and "[[" + id + "|" + title + "]]" otherwise, leaves
\* the cursor collapsed at from + the length of the inserted text, and does not
\* modify the store.
C16_ExistingNoteLink ==
    \A e \in NoteApplies :
        \E i \in 1..Len(e.storeBefore) :
            /\ e.storeBefore[i].id = e.option[1].id
            /\ InsertedText(e) = LinkTo(e.storeBefore[i])
            /\ e.docAfter = Replaced(e.docBefore, e.from, ConsumedEnd(e),
                                     LinkTo(e.storeBefore[i]))
            /\ CursorAt(e.selAfter, e.from + Len(LinkTo(e.storeBefore[i])))
            /\ Upserts(e) = <<>>
            /\ e.storeAfter = e.storeBefore

\* the option of a note without a title was applied, and the link holds its id only
C16_Witness ==
    \E e \in NoteApplies :
        /\ e.option[1].id = <<"4">>
        /\ e.docAfter = Replaced(e.docBefore, e.from, ConsumedEnd(e),
                                 <<"[", "[", "4", "]", "]">>)
        /\ CursorAt(e.selAfter, e.from + 5)
        /\ e.storeAfter = ManyNotes

----------------------------------------------------------------------------
(* C17 *)

\* the offsets at which the text the date source looks at may start: an open
\* "[[" link, or a run of word characters (the empty run at pos included)
DateWordStarts(d, pos) ==
    OpenLinkStarts(d, pos, {"]", "|", "^"})
        \cup {h \in 0..pos : \A k \in (h + 1)..pos :
                  d[k] \in LowerCase \cup UpperCase \cup Digits \cup {"_"}}

\* the query the date source hands to the parser: the text from the leftmost
\* such offset to pos, without a leading "[["
DateQuery(d, pos) ==
    LET h == CHOOSE x \in DateWordStarts(d, pos) : \A y \in DateWordStarts(d, pos) : x <= y
    IN  IF h + 2 <= pos /\ d[h + 1] = "[" /\ d[h + 2] = "["
            THEN SubSeq(d, h + 3, pos)
            ELSE SubSeq(d, h + 1, pos)

\* C17: the date source returns no result (and never fails) when its pattern
\* does not match, when the query left after stripping a leading "[[" is empty,
\* or when the parser returns no date; in every other case it returns exactly
\* one option, with the widget's filtering turned off.
C17_DateNoMatch ==
    \A a \in {active[k] : k \in 1..Len(active)} :
        LET query == DateQuery(doc, a.pos)
        IN  IF DateWordStarts(doc, a.pos) = {} \/ query = <<>> \/ ParseDate(query) = <<>>
                THEN a.date = <<>>
                ELSE /\ a.date # <<>>
                     /\ Len(a.date[1].options) = 1
                     /\ a.date[1].options[1].kind = "date"
                     /\ a.date[1].filter = FALSE

\* the sources ran right after "[[": the pattern matched, the query is empty and
\* the date source returned nothing while the note source returned a result
C17_Witness ==
    /\ active # <<>>
    /\ active[1].pos >= 2
    /\ doc[active[1].pos - 1] = "[" /\ doc[active[1].pos] = "["
    /\ active[1].date = <<>>
    /\ active[1].note # <<>>

----------------------------------------------------------------------------
(* C18 *)

\* the results the three sources returned for the current trigger
ActiveResults ==
    {r \in UNION {{a.date, a.note, a.tag} : a \in {active[k] : k \in 1..Len(active)}} :
        r # <<>>}

\* the options of a result that stand for a date, a tag or a stored note
Listed(result) == SelectSeq(result.options, LAMBDA o : o.kind # "create")

\* C18: every listed option that is not the synthetic create option (a date, a
\* tag or an existing note) has a non-empty label, whatever the store holds and
\* whatever tags are in use.
C18_NonEmptyLabels ==
    \A r \in ActiveResults :
        \A i \in 1..Len(Listed(r[1])) : Listed(r[1])[i].label # <<>>

\* the body of a note after its frontmatter block
ContentOf(note) ==
    IF note.rawBody # <<>> /\ note.rawBody[1] = "---\nk: v\n---\n"
        THEN SubSeq(note.rawBody, 2, Len(note.rawBody))
        ELSE note.rawBody

\* C18 (amended): every date option and every tag option has a non-empty label;
\* the label of an existing-note option is the note's body without its
\* frontmatter, so it is empty exactly when the note has no content after the
\* frontmatter.
C18_LabelsFollowContent ==
    \A a \in {active[k] : k \in 1..Len(active)} :
        /\ a.date # <<>> =>
              \A i \in 1..Len(a.date[1].options) : a.date[1].options[i].label # <<>>
        /\ a.tag # <<>> =>
              \A i \in 1..Len(a.tag[1].options) : a.tag[1].options[i].label # <<>>
        /\ a.note # <<>> =>
              \A i \in 1..Len(ListedNotes(a.note[1])) :
                  /\ ListedNotes(a.note[1])[i].label = ContentOf(a.search[i])
                  /\ ListedNotes(a.note[1])[i].label = <<>>
                        <=> ContentOf(a.search[i]) = <<>>

\* a note that holds nothing but frontmatter is listed, with an empty label,
\* next to a note whose label is its content
C18_Witness ==
    /\ active # <<>>
    /\ active[1].note # <<>>
    /\ Len(active[1].note[1].options) >= 3
    /\ active[1].note[1].options[2].label = <<"b">>
    /\ active[1].note[1].options[3].id = <<"3">>
    /\ active[1].note[1].options[3].label = <<>>

----------------------------------------------------------------------------
(* C19 *)

\* every result is anchored at or before the cursor it was computed for, and
\* every apply replaced the text from its anchor to the cursor, and the "]]"
\* after the cursor when there is one
C19_Anchored ==
    /\ \A a \in {active[k] : k \in 1..Len(active)} :
          \A r \in {a.date, a.note, a.tag} :
              r # <<>> => 0 <= r[1].from /\ r[1].from <= a.pos
    /\ \A e \in Applies :
          /\ 0 <= e.from /\ e.from <= e.to
          /\ e.to = e.selBefore.head
          /\ Dispatches(e)[1].changes[1].from = e.from
          /\ Dispatches(e)[1].changes[1].to \in {e.to, e.to + 2}
          /\ Dispatches(e)[1].changes[1].to = e.to + 2 <=> ClosedAt(e.docBefore, e.to)
          /\ e.docAfter = SubSeq(e.docBefore, 1, e.from) \o InsertedText(e)
                              \o SubSeq(e.docBefore, ConsumedEnd(e) + 1, Len(e.docBefore))

\* an apply is called with the anchor of the result its option came from and
\* with the cursor that result was computed for
C19_AppliedAtAnchor ==
    (Len(hist') > Len(hist) /\ hist'[Len(hist')].kind = "apply") =>
        /\ active # <<>>
        /\ hist'[Len(hist')].to = active[1].pos
        /\ \E r \in ActiveResults :
              /\ hist'[Len(hist')].from = r[1].from
              /\ \E i \in 1..Len(r[1].options) :
                    r[1].options[i] = hist'[Len(hist')].option[1]

\* C19: the anchor of every result of the date, tag and note sources is at most
\* the cursor offset it was computed for, and the text between the anchor and
\* the cursor is exactly the span an apply replaces when an option of the result
\* is selected (plus the "]]" after the cursor when the apply consumes it).
C19_AnchorBound ==
    /\ []C19_Anchored
    /\ [][C19_AppliedAtAnchor]_vars

\* a date option anchored three characters before the cursor was applied where
\* "]]" follows: the span from the anchor to the end of the "]]" was replaced
C19_Witness ==
    \E e \in DateApplies :
        /\ e.from + 3 = e.to
        /\ ClosedAt(e.docBefore, e.to)
        /\ Dispatches(e)[1].changes[1].from = e.from
        /\ Dispatches(e)[1].changes[1].to = e.from + 5
        /\ Len(e.docAfter) = Len(e.docBefore) - 5 + 14

----------------------------------------------------------------------------
(* C20 *)

\* the end of the range a handler must replace: for an apply the cursor or the
\* end of the "]]" after it, for a URL paste the end of the selection
ReplacedEnd(e) == IF e.kind = "apply" THEN ConsumedEnd(e) ELSE e.to

\* the document kept everything before from and everything after the replaced
\* range
C20_Preserved ==
    \A e \in Transacting :
        LET kept == Len(e.docBefore) - ReplacedEnd(e)
        IN  /\ e.from <= Len(e.docAfter)
            /\ SubSeq(e.docAfter, 1, e.from) = SubSeq(e.docBefore, 1, e.from)
            /\ e.from + kept <= Len(e.docAfter)
            /\ SubSeq(e.docAfter, Len(e.docAfter) - kept + 1, Len(e.docAfter))
                  = SubSeq(e.docBefore, ReplacedEnd(e) + 1, Len(e.docBefore))

\* a step in which the sources compute their results
C20_ComputingChangesNothing ==
    (active = <<>> /\ active' # <<>>) => doc' = doc /\ sel' = sel /\ store' = store

\* C20: an apply and a URL paste change only the characters of the range they
\* replace: the text before from and the text after the end of that range (after
\* the consumed "]]" for an apply) are as before; and computing the results of
\* the sources changes neither the document, the selection nor the store.
C20_Frame ==
    /\ []C20_Preserved
    /\ [][C20_ComputingChangesNothing]_vars

\* an option was applied with text before its anchor and text after the
\* cursor, and both are still there around the inserted link
C20_Witness ==
    \E e \in Applies :
        /\ 0 < e.from
        /\ ReplacedEnd(e) < Len(e.docBefore)
        /\ e.docAfter # e.docBefore
        /\ e.docAfter[1] = e.docBefore[1]
        /\ e.docAfter[e.from + 1] = "["
        /\ e.docAfter[Len(e.docAfter)] = e.docBefore[Len(e.docBefore)]

====
